---- MODULE Spec2Model ----
(***************************************************************************)
(* A model of the blinkt crate: the packed 4-byte Pixel (src/src/pixel.rs) *)
(* and the Blinkt controller with its serial transport and its drop        *)
(* behaviour (src/src/lib.rs).                                             *)
(*                                                                         *)
(* f32 values are modelled bit-exactly as sign, 24-bit significand and     *)
(* exponent (value = m * 2^e), with round-to-nearest-even after every      *)
(* operation, so that the float-to-integer conversions of the source are   *)
(* computed, not assumed.                                                  *)
(***************************************************************************)
EXTENDS Integers, Sequences, FiniteSets, TLC

VARIABLES
    pixels,         \* Blinkt.pixels: sequence of Pixel.value, each <<brightness, blue, green, red>>
    clear_on_drop,  \* Blinkt.clear_on_drop
    end_frame,      \* Blinkt.end_frame: sequence of zero bytes
    serial_output,  \* which SerialOutput the Box holds: "gpio" or "spi"
    alive,          \* the Blinkt value exists (has not been dropped)
    released,       \* the boxed transport has been dropped
    writes,         \* the data of every serial_output.write call the last operation issued, in order
    failed,         \* the last of those write calls returned Err
    err_at,         \* the position, among the write calls of the last operation, of the
                    \* call that returned Err; 0 when every call returned Ok
    outcome,        \* what the last operation gave its caller: "unit", "Ok", "Err", "panic"
    op,             \* the kind of the last operation: "new", "set", "miss" (a single-pixel
                    \* setter given an index >= the pixel count), "clear" (Blinkt::clear),
                    \* "pixel_clear" (Pixel::clear), "show", "drop"
    drops,          \* how many times Drop::drop has run on the value
    last_set,       \* per pixel, the arguments most recently given to a setter
    shows,          \* how many show() calls in a row have just returned Ok, counted up to MaxShows
    pin_data,       \* BlinktGpio.pin_data: the level of the data line, 0 low, 1 high
    pin_clock,      \* BlinktGpio.pin_clock: the level of the clock line
    gpio_pc,        \* where BlinktGpio::write stands: [at, byte, n], at "idle" outside a call
    edges,          \* the data line's level at each rising clock edge of the current write
    arg,            \* <<x>>: the argument x of a pure function under evaluation
    ret             \* <<y>>: its result y; <<>> before the evaluation

vars == <<pixels, clear_on_drop, end_frame, serial_output, alive, released,
          writes, failed, err_at, outcome, op, drops, last_set, shows,
          pin_data, pin_clock, gpio_pc, edges, arg, ret>>

\* the pins and the position of BlinktGpio::write
gpio_vars == <<pin_data, pin_clock, gpio_pc, edges>>

\* the Blinkt without its transport's pins
controller_vars == <<pixels, clear_on_drop, end_frame, serial_output, alive, released,
                     writes, failed, err_at, outcome, op, drops, last_set, shows>>

blinkt_vars == <<controller_vars, gpio_vars>>

(***************************************************************************)
(* Bounds of the model.                                                    *)
(***************************************************************************)
MaxPixels == 2
MaxShows == 2

(***************************************************************************)
(* Program constants.                                                      *)
(***************************************************************************)
DEFAULT_BRIGHTNESS == 7
IDX_BRIGHTNESS == 0
IDX_BLUE == 1
IDX_GREEN == 2
IDX_RED == 3
NUM_PIXELS == 8

(***************************************************************************)
(* u8 arithmetic.                                                          *)
(***************************************************************************)
RECURSIVE BitOrN(_, _, _)
BitOrN(a, b, bits) ==
    IF bits = 0 THEN 0
    ELSE (IF a % 2 = 1 \/ b % 2 = 1 THEN 1 ELSE 0)
         + 2 * BitOrN(a \div 2, b \div 2, bits - 1)

RECURSIVE BitAndN(_, _, _)
BitAndN(a, b, bits) ==
    IF bits = 0 THEN 0
    ELSE (IF a % 2 = 1 /\ b % 2 = 1 THEN 1 ELSE 0)
         + 2 * BitAndN(a \div 2, b \div 2, bits - 1)

\* a | b and a & b on u8
BitOr(a, b) == BitOrN(a, b, 8)
BitAnd(a, b) == BitAndN(a, b, 8)

(***************************************************************************)
(* f32: IEEE 754 binary32, round to nearest, ties to even.                 *)
(***************************************************************************)
Fin(neg, m, e) == [k |-> "fin", neg |-> neg, m |-> m, e |-> e]
F32NaN == [k |-> "nan", neg |-> FALSE, m |-> 0, e |-> 0]
F32Inf(neg) == [k |-> "inf", neg |-> neg, m |-> 0, e |-> 0]
F32Zero == Fin(FALSE, 0, 0)
F32One == Fin(FALSE, 8388608, -23)

\* number of significant bits of x, for 0 <= x < 2^30
BitLen(x) == CHOOSE L \in 0..30 : x < 2^L /\ (L = 0 \/ 2^(L - 1) <= x)

\* x / 2^sh rounded to the nearest integer, ties to even
RoundShift(x, sh) ==
    IF sh <= 0 THEN x
    ELSE LET q == x \div 2^sh
             r == x % 2^sh
             half == 2^(sh - 1)
         IN  IF r > half \/ (r = half /\ q % 2 = 1) THEN q + 1 ELSE q

\* the f32 nearest to x * 2^e, for 0 <= x < 2^30: a 24-bit significand
F32Round(x, e) ==
    IF x = 0 THEN F32Zero
    ELSE LET L == BitLen(x)
         IN  IF L <= 24 THEN Fin(FALSE, x * 2^(24 - L), e - (24 - L))
             ELSE LET m == RoundShift(x, L - 24)
                  IN  IF m = 16777216 THEN Fin(FALSE, 8388608, e + (L - 24) + 1)
                      ELSE Fin(FALSE, m, e + (L - 24))

\* `n as f32` for a usize n < 2^30
UsizeToF32(n) == F32Round(n, 0)

\* x / 16.0f32: exact, the exponent drops by 4
F32Div16(x) == IF x.k = "fin" /\ x.m # 0 THEN [x EXCEPT !.e = @ - 4] ELSE x

\* a + b for finite a, b >= 0 with normalised significands; the smaller operand is
\* aligned keeping guard, round and sticky bits
F32AddPos(a, b) ==
    IF a.m = 0 THEN b
    ELSE IF b.m = 0 THEN a
    ELSE LET hi == IF a.e >= b.e THEN a ELSE b
             lo == IF a.e >= b.e THEN b ELSE a
             d == hi.e - lo.e
             sc == lo.m * 8
             q == IF d > 27 THEN 0 ELSE sc \div 2^d
             inexact == IF d > 27 THEN TRUE ELSE sc % 2^d # 0
             B == IF inexact /\ q % 2 = 0 THEN q + 1 ELSE q
         IN  F32Round(hi.m * 8 + B, hi.e - 3)

\* k * x in f32, for an integer 0 < k < 64 (exact in f32) and finite x >= 0
F32Scale(k, x) == IF x.m = 0 THEN x ELSE F32Round(k * x.m, x.e)

\* x > 1.0 for finite x with a normalised significand
F32GtOne(x) ==
    /\ ~x.neg
    /\ x.m >= 8388608
    /\ (x.e > -23 \/ (x.e = -23 /\ x.m > 8388608))

\* f32::max(x, 0.0): a NaN operand yields the other operand
F32Max0(x) ==
    CASE x.k = "nan" -> F32Zero
      [] x.k = "inf" -> IF x.neg THEN F32Zero ELSE x
      [] OTHER -> IF x.neg \/ x.m = 0 THEN F32Zero ELSE x

\* f32::min(x, 1.0) for x >= 0
F32Min1(x) ==
    CASE x.k = "nan" -> F32One
      [] x.k = "inf" -> IF x.neg THEN x ELSE F32One
      [] OTHER -> IF F32GtOne(x) THEN F32One ELSE x

\* `x as usize` (saturating, truncating toward zero, NaN to 0) for results below 2^30
F32ToUsize(x) ==
    CASE x.k = "nan" -> 0
      [] x.k = "inf" -> IF x.neg THEN 0 ELSE 1073741823
      [] OTHER ->
           IF x.neg \/ x.m = 0 THEN 0
           ELSE IF x.e >= 0 THEN (IF x.e > 6 THEN 1073741823 ELSE x.m * 2^x.e)
           ELSE IF -x.e > 30 THEN 0
           ELSE x.m \div 2^(-x.e)

\* `x as u8`: the same conversion, saturating at 255
F32ToU8(x) ==
    LET v == F32ToUsize(x) IN IF v > 255 THEN 255 ELSE v

\* the quotient rounded up instead of to nearest
F32Div31Up(k) ==
    IF k = 0 THEN F32Zero
    ELSE LET s == CHOOSE t \in 0..30 : 8388608 * 31 <= k * 2^t /\ k * 2^t < 16777216 * 31
             q == (k * 2^s) \div 31
             m == IF (k * 2^s) % 31 # 0 THEN q + 1 ELSE q
         IN  IF m = 16777216 THEN Fin(FALSE, 8388608, 1 - s) ELSE Fin(FALSE, m, -s)

\* f32::from(k) / 31.0 for a u8 k <= 31: the quotient rounded to nearest (31 is odd,
\* so there is no tie)
F32Div31(k) ==
    IF k = 0 THEN F32Zero
    ELSE LET s == CHOOSE t \in 0..30 : 8388608 * 31 <= k * 2^t /\ k * 2^t < 16777216 * 31
             q == (k * 2^s) \div 31
             r == (k * 2^s) % 31
             m == IF 2 * r > 31 THEN q + 1 ELSE q
         IN  IF m = 16777216 THEN Fin(FALSE, 8388608, 1 - s) ELSE Fin(FALSE, m, -s)

\* the literal 0.94f32 = 15770583 * 2^-24
F32_0_94 == Fin(FALSE, 15770583, -24)

(***************************************************************************)
(* Pixel (src/src/pixel.rs).  A Pixel is its `value` array, 1-indexed here.*)
(***************************************************************************)
PixelDefault == <<BitOr(224, DEFAULT_BRIGHTNESS), 0, 0, 0>>

\* set_rgb putting the brightness byte back to its default as well
set_rgb_resetting(p, red, green, blue) == <<BitOr(224, DEFAULT_BRIGHTNESS), blue, green, red>>

set_rgb(p, red, green, blue) ==
    [p EXCEPT ![IDX_RED + 1] = red, ![IDX_GREEN + 1] = green, ![IDX_BLUE + 1] = blue]

\* the conversion rounding up instead of truncating
BrightnessLevelCeil(brightness) ==
    LET x == F32Scale(31, F32Min1(F32Max0(brightness)))
        v == F32ToU8(x)
        exact == x.m = 0 \/ x.e >= 0 \/ (-x.e <= 30 /\ x.m % 2^(-x.e) = 0)
    IN  IF exact THEN v ELSE v + 1

\* the conversion without the clamp to [0.0, 1.0]
BrightnessLevelUnclamped(brightness) ==
    IF brightness.k = "fin" /\ ~brightness.neg
    THEN F32ToU8(F32Scale(31, brightness))
    ELSE IF brightness.neg THEN 1 ELSE 255

\* (31.0 * brightness.max(0.0).min(1.0)) as u8
BrightnessLevel(brightness) ==
    F32ToU8(F32Scale(31, F32Min1(F32Max0(brightness))))

\* set_brightness storing the 5-bit value without the 0b1110_0000 marker
set_brightness_unmarked(p, brightness) ==
    [p EXCEPT ![IDX_BRIGHTNESS + 1] = BrightnessLevel(brightness)]

set_brightness(p, brightness) ==
    [p EXCEPT ![IDX_BRIGHTNESS + 1] = BitOr(224, BrightnessLevel(brightness))]

set_rgbb(p, red, green, blue, brightness) ==
    set_brightness(set_rgb(p, red, green, blue), brightness)

set_red(p, red) == [p EXCEPT ![IDX_RED + 1] = red]
set_green(p, green) == [p EXCEPT ![IDX_GREEN + 1] = green]
set_blue(p, blue) == [p EXCEPT ![IDX_BLUE + 1] = blue]

pixel_clear(p) == set_rgb(p, 0, 0, 0)

bytes(p) == p

\* the numerator of Pixel::brightness(): 0b0001_1111 & value[IDX_BRIGHTNESS] (the result is this / 31.0)
brightness(p) == BitAnd(31, p[IDX_BRIGHTNESS + 1])

\* Pixel::brightness(): f32::from(0b0001_1111 & value[IDX_BRIGHTNESS]) / 31.0
brightness_value(p) == F32Div31(brightness(p))

(***************************************************************************)
(* Blinkt (src/src/lib.rs).                                                *)
(***************************************************************************)
Zeros(n) == [i \in 1..n |-> 0]

\* the byte stream a sequence of write calls puts on the wire
RECURSIVE Flatten(_)
Flatten(ws) == IF ws = <<>> THEN <<>> ELSE Head(ws) \o Flatten(Tail(ws))

\* 4 + (((num_pixels as f32 / 16.0f32) + 0.94f32) as usize)
EndFrameLen(num_pixels) ==
    4 + F32ToUsize(F32AddPos(F32Div16(UsizeToF32(num_pixels)), F32_0_94))

\* what a setter has most recently been given for one pixel; brightness is the f32
\* argument, or Unset while the pixel still has its default
Unset == [k |-> "default", neg |-> FALSE, m |-> 0, e |-> 0]
NeverSet == [red |-> 0, green |-> 0, blue |-> 0, brightness |-> Unset]

\* BlinktGpio::write is not running
Idle == [at |-> "idle", byte |-> 0, n |-> 0]

\* the state Blinkt::with_settings ("gpio") or Blinkt::with_spi ("spi") returns; for
\* "gpio", BlinktGpio::with_settings has set both pins low
New(kind, num_pixels) ==
    /\ serial_output = kind
    /\ pixels = [i \in 1..num_pixels |-> PixelDefault]
    /\ clear_on_drop = TRUE
    /\ end_frame = Zeros(EndFrameLen(num_pixels))
    /\ alive = TRUE
    /\ released = FALSE
    /\ writes = <<>>
    /\ failed = FALSE
    /\ err_at = 0
    /\ outcome = "Ok"
    /\ op = "new"
    /\ drops = 0
    /\ last_set = [i \in 1..num_pixels |-> NeverSet]
    /\ shows = 0
    /\ pin_data = 0
    /\ pin_clock = 0
    /\ gpio_pc = Idle
    /\ edges = <<>>

\* a value that stays usable after it was dropped
LiveAlways == TRUE

\* a method borrows the value (&mut self), and drop runs on a value that has not
\* been dropped or moved away: both need the value to exist
Live == alive

\* an index past the end clamped to the last pixel
get_mut_clamped(px, pixel) ==
    IF Len(px) = 0 THEN 0 ELSE IF pixel < Len(px) THEN pixel + 1 ELSE Len(px)

\* self.pixels.get_mut(pixel): the position of the pixel (1-based), 0 for None
get_mut(px, pixel) == IF pixel < Len(px) THEN pixel + 1 ELSE 0

\* a setter returns () and touches neither the transport nor the other fields
SetterFrame(kind) ==
    /\ writes' = <<>>
    /\ failed' = FALSE
    /\ err_at' = 0
    /\ outcome' = "unit"
    /\ op' = kind
    /\ shows' = 0
    /\ UNCHANGED <<end_frame, serial_output, alive, released, drops, arg, ret, gpio_vars>>

\* the kind of a single-pixel setter call, by its index argument
SetKind(pixel) == IF pixel < Len(pixels) THEN "set" ELSE "miss"

set_pixel(pixel, red, green, blue) ==
    /\ Live
    /\ LET t == get_mut(pixels, pixel)
       IN  IF t # 0
           THEN /\ pixels' = [pixels EXCEPT ![t] = set_rgb(@, red, green, blue)]
                /\ last_set' = [last_set EXCEPT ![t].red = red, ![t].green = green,
                                                ![t].blue = blue]
           ELSE UNCHANGED <<pixels, last_set>>
    /\ UNCHANGED clear_on_drop
    /\ SetterFrame(SetKind(pixel))

set_pixel_rgbb(pixel, red, green, blue, b) ==
    /\ Live
    /\ LET t == get_mut(pixels, pixel)
       IN  IF t # 0
           THEN /\ pixels' = [pixels EXCEPT ![t] = set_rgbb(@, red, green, blue, b)]
                /\ last_set' = [last_set EXCEPT ![t] =
                                   [red |-> red, green |-> green, blue |-> blue,
                                    brightness |-> b]]
           ELSE UNCHANGED <<pixels, last_set>>
    /\ UNCHANGED clear_on_drop
    /\ SetterFrame(SetKind(pixel))

set_pixel_brightness(pixel, b) ==
    /\ Live
    /\ LET t == get_mut(pixels, pixel)
       IN  IF t # 0
           THEN /\ pixels' = [pixels EXCEPT ![t] = set_brightness(@, b)]
                /\ last_set' = [last_set EXCEPT ![t].brightness = b]
           ELSE UNCHANGED <<pixels, last_set>>
    /\ UNCHANGED clear_on_drop
    /\ SetterFrame(SetKind(pixel))

\* for pixel in &mut self.pixels { pixel.set_rgb(red, green, blue) }
AllSetRgb(px, red, green, blue) ==
    [i \in 1..Len(px) |-> set_rgb(px[i], red, green, blue)]

\* for pixel in &mut self.pixels { pixel.set_brightness(brightness) }
AllSetBrightness(px, b) ==
    [i \in 1..Len(px) |-> set_brightness(px[i], b)]

set_all_pixels(red, green, blue) ==
    /\ Live
    /\ pixels' = AllSetRgb(pixels, red, green, blue)
    /\ last_set' = [i \in 1..Len(last_set) |->
                       [last_set[i] EXCEPT !.red = red, !.green = green, !.blue = blue]]
    /\ UNCHANGED clear_on_drop
    /\ SetterFrame("set")

set_all_pixels_rgbb(red, green, blue, b) ==
    /\ Live
    /\ pixels' = [i \in 1..Len(pixels) |-> set_rgbb(pixels[i], red, green, blue, b)]
    /\ last_set' = [i \in 1..Len(last_set) |->
                       [red |-> red, green |-> green, blue |-> blue, brightness |-> b]]
    /\ UNCHANGED clear_on_drop
    /\ SetterFrame("set")

set_all_pixels_brightness(b) ==
    /\ Live
    /\ pixels' = AllSetBrightness(pixels, b)
    /\ last_set' = [i \in 1..Len(last_set) |-> [last_set[i] EXCEPT !.brightness = b]]
    /\ UNCHANGED clear_on_drop
    /\ SetterFrame("set")

\* a clear that leaves the buffer as it is
ClearAllNoop(px) == px

\* the buffer after Blinkt::clear: self.set_all_pixels(0, 0, 0)
ClearAll(px) == AllSetRgb(px, 0, 0, 0)

\* the record of the last settings after a clear
ClearedSettings(ls) ==
    [i \in 1..Len(ls) |-> [ls[i] EXCEPT !.red = 0, !.green = 0, !.blue = 0]]

\* a clear that sends the cleared buffer to the transport at once
clear_flushing ==
    /\ Live
    /\ pixels' = ClearAll(pixels)
    /\ last_set' = ClearedSettings(last_set)
    /\ writes' = <<Zeros(4)>> \o [i \in 1..Len(pixels) |-> bytes(pixels'[i])] \o <<end_frame>>
    /\ failed' = FALSE
    /\ err_at' = 0
    /\ outcome' = "unit"
    /\ op' = "clear"
    /\ shows' = 0
    /\ UNCHANGED <<clear_on_drop, end_frame, serial_output, alive, released, drops, arg, ret,
                   gpio_vars>>

clear ==
    /\ Live
    /\ pixels' = ClearAll(pixels)
    /\ last_set' = ClearedSettings(last_set)
    /\ UNCHANGED clear_on_drop
    /\ SetterFrame("clear")

set_clear_on_drop(flag) ==
    /\ Live
    /\ clear_on_drop' = flag
    /\ UNCHANGED <<pixels, last_set>>
    /\ SetterFrame("set")

\* iter_mut(): the caller applies a Pixel method to the &mut Pixel yielded for
\* pixel i; p is the pixel and g the record of its last settings after the call
IterApplyAs(kind, i, p, g) ==
    /\ Live
    /\ i < Len(pixels)
    /\ pixels' = [pixels EXCEPT ![i + 1] = p]
    /\ last_set' = [last_set EXCEPT ![i + 1] = g]
    /\ UNCHANGED clear_on_drop
    /\ SetterFrame(kind)

IterApply(i, p, g) == IterApplyAs("set", i, p, g)

iter_set_rgb(i, red, green, blue) ==
    /\ i < Len(pixels)
    /\ IterApply(i, set_rgb(pixels[i + 1], red, green, blue),
                 [last_set[i + 1] EXCEPT !.red = red, !.green = green, !.blue = blue])

iter_set_rgbb(i, red, green, blue, b) ==
    /\ i < Len(pixels)
    /\ IterApply(i, set_rgbb(pixels[i + 1], red, green, blue, b),
                 [red |-> red, green |-> green, blue |-> blue, brightness |-> b])

iter_set_red(i, red) ==
    /\ i < Len(pixels)
    /\ IterApply(i, set_red(pixels[i + 1], red), [last_set[i + 1] EXCEPT !.red = red])

iter_set_green(i, green) ==
    /\ i < Len(pixels)
    /\ IterApply(i, set_green(pixels[i + 1], green), [last_set[i + 1] EXCEPT !.green = green])

iter_set_blue(i, blue) ==
    /\ i < Len(pixels)
    /\ IterApply(i, set_blue(pixels[i + 1], blue), [last_set[i + 1] EXCEPT !.blue = blue])

iter_set_brightness(i, b) ==
    /\ i < Len(pixels)
    /\ IterApply(i, set_brightness(pixels[i + 1], b), [last_set[i + 1] EXCEPT !.brightness = b])

iter_clear(i) ==
    /\ i < Len(pixels)
    /\ IterApplyAs("pixel_clear", i, pixel_clear(pixels[i + 1]),
                    [last_set[i + 1] EXCEPT !.red = 0, !.green = 0, !.blue = 0])

\* show() walking the pixels from the last to the first
ShowCallsReversed(px, ef) ==
    <<Zeros(4)>> \o [i \in 1..Len(px) |-> bytes(px[Len(px) + 1 - i])] \o <<ef>>

\* show() collecting the LED frames into one buffer and writing it in one call
ShowCallsBatched(px, ef) ==
    <<Zeros(4), Flatten([i \in 1..Len(px) |-> bytes(px[i])]), ef>>

\* the write calls show() issues when every write succeeds: the start frame, one
\* call per pixel, the end frame
ShowCalls(px, ef) ==
    <<Zeros(4)>> \o [i \in 1..Len(px) |-> bytes(px[i])] \o <<ef>>

\* BlinktGpio::write always returns Ok; BlinktSpi::write returns the Spi's error
CanFail(kind) == kind = "spi"

\* which write call fails in one show(): 0 for none, else its position
FailPoints(kind, px) == IF CanFail(kind) THEN 0..(Len(px) + 2) ELSE {0}

\* show() going on to the remaining writes after one returned Err
ShowWritesContinue(px, ef, fail_at) == ShowCalls(px, ef)

\* the write calls show() issues when its fail_at-th call returns Err: the `?`
\* returns at once
ShowWrites(px, ef, fail_at) ==
    IF fail_at = 0 THEN ShowCalls(px, ef) ELSE SubSeq(ShowCalls(px, ef), 1, fail_at)

\* a show() that clears the buffer once it has sent it
show_consuming(fail_at) ==
    /\ Live
    /\ fail_at \in FailPoints(serial_output, pixels)
    /\ writes' = ShowWrites(pixels, end_frame, fail_at)
    /\ failed' = (fail_at # 0)
    /\ err_at' = fail_at
    /\ outcome' = IF fail_at # 0 THEN "Err" ELSE "Ok"
    /\ op' = "show"
    /\ shows' = IF fail_at # 0 THEN 0 ELSE IF shows < MaxShows THEN shows + 1 ELSE shows
    /\ pixels' = IF fail_at = 0 THEN ClearAll(pixels) ELSE pixels
    /\ last_set' = IF fail_at = 0 THEN ClearedSettings(last_set) ELSE last_set
    /\ UNCHANGED <<clear_on_drop, end_frame, serial_output, alive, released,
                   drops, arg, ret, gpio_vars>>

show(fail_at) ==
    /\ Live
    /\ fail_at \in FailPoints(serial_output, pixels)
    /\ writes' = ShowWrites(pixels, end_frame, fail_at)
    /\ failed' = (fail_at # 0)
    /\ err_at' = fail_at
    /\ outcome' = IF fail_at # 0 THEN "Err" ELSE "Ok"
    /\ op' = "show"
    /\ shows' = IF fail_at # 0 THEN 0 ELSE IF shows < MaxShows THEN shows + 1 ELSE shows
    /\ UNCHANGED <<pixels, clear_on_drop, end_frame, serial_output, alive, released,
                   drops, last_set, arg, ret, gpio_vars>>

\* a drop that clears and flushes whatever the flag says
DropClearsAlways(flag) == TRUE

\* a drop that unwraps the Result of show()
DropOutcomeUnwrap(show_failed) == IF show_failed THEN "panic" ELSE "unit"

\* if self.clear_on_drop { ... }
DropClears(flag) == flag

\* `let _ = self.show();` discards the Result
DropOutcome(show_failed) == "unit"

\* impl Drop for Blinkt; the fields, the boxed transport among them, are dropped
\* after it
drop(fail_at) ==
    /\ Live
    /\ IF DropClears(clear_on_drop)
       THEN /\ fail_at \in FailPoints(serial_output, pixels)
            /\ pixels' = ClearAll(pixels)
            /\ last_set' = ClearedSettings(last_set)
            /\ writes' = ShowWrites(pixels', end_frame, fail_at)
            /\ failed' = (fail_at # 0)
            /\ outcome' = DropOutcome(fail_at # 0)
       ELSE /\ fail_at = 0
            /\ UNCHANGED <<pixels, last_set>>
            /\ writes' = <<>>
            /\ failed' = FALSE
            /\ outcome' = "unit"
    /\ err_at' = fail_at
    /\ alive' = FALSE
    /\ released' = TRUE
    /\ drops' = drops + 1
    /\ op' = "drop"
    /\ shows' = 0
    /\ UNCHANGED <<clear_on_drop, end_frame, serial_output, arg, ret, gpio_vars>>

(***************************************************************************)
(* The controller under every operation, for small pixel counts.           *)
(***************************************************************************)
F32_0_1 == Fin(FALSE, 13421773, -27)
F32_0_5 == Fin(FALSE, 8388608, -24)
F32_2_0 == Fin(FALSE, 8388608, -22)
F32_Neg1 == Fin(TRUE, 8388608, -23)

PixelCounts == 0..MaxPixels
Indices == 0..MaxPixels
ColourArgs == {<<170, 187, 204>>}
BrightnessArgs == {F32_Neg1, F32_0_1, F32One, F32_2_0}

Init ==
    /\ \E kind \in {"gpio", "spi"}, n \in PixelCounts : New(kind, n)
    /\ arg = <<>>
    /\ ret = <<>>

Next ==
    \/ \E i \in Indices, c \in ColourArgs : set_pixel(i, c[1], c[2], c[3])
    \/ \E i \in Indices, c \in ColourArgs, b \in BrightnessArgs :
          set_pixel_rgbb(i, c[1], c[2], c[3], b)
    \/ \E i \in Indices, b \in BrightnessArgs : set_pixel_brightness(i, b)
    \/ \E c \in ColourArgs : set_all_pixels(c[1], c[2], c[3])
    \/ \E c \in ColourArgs, b \in BrightnessArgs : set_all_pixels_rgbb(c[1], c[2], c[3], b)
    \/ \E b \in BrightnessArgs : set_all_pixels_brightness(b)
    \/ clear
    \/ \E flag \in BOOLEAN : set_clear_on_drop(flag)
    \/ \E i \in Indices, c \in ColourArgs : iter_set_rgb(i, c[1], c[2], c[3])
    \/ \E i \in Indices, c \in ColourArgs, b \in BrightnessArgs :
          iter_set_rgbb(i, c[1], c[2], c[3], b)
    \/ \E i \in Indices, c \in ColourArgs : iter_set_red(i, c[1])
    \/ \E i \in Indices, c \in ColourArgs : iter_set_green(i, c[2])
    \/ \E i \in Indices, c \in ColourArgs : iter_set_blue(i, c[3])
    \/ \E i \in Indices, b \in BrightnessArgs : iter_set_brightness(i, b)
    \/ \E i \in Indices : iter_clear(i)
    \/ \E f \in 0..(MaxPixels + 2) : show(f)
    \/ \E f \in 0..(MaxPixels + 2) : drop(f)

Spec == Init /\ [][Next]_vars

(***************************************************************************)
(* The default board: NUM_PIXELS pixels driven with the whole-strip        *)
(* operations, as the examples drive it.                                   *)
(***************************************************************************)
ScenarioColours == {<<255, 0, 0>>, <<0, 255, 0>>, <<0, 0, 255>>}
ScenarioBrightness == {F32_0_1, F32_0_5, F32One, F32NaN, F32Inf(FALSE)}

InitScenario ==
    /\ \E kind \in {"gpio", "spi"} : New(kind, NUM_PIXELS)
    /\ arg = <<>>
    /\ ret = <<>>

NextScenario ==
    \/ \E c \in ScenarioColours : set_all_pixels(c[1], c[2], c[3])
    \/ \E c \in ScenarioColours, b \in ScenarioBrightness :
          set_all_pixels_rgbb(c[1], c[2], c[3], b)
    \/ \E b \in ScenarioBrightness : set_all_pixels_brightness(b)
    \/ clear
    \/ \E flag \in BOOLEAN : set_clear_on_drop(flag)
    \/ \E f \in 0..(NUM_PIXELS + 2) : show(f)
    \/ \E f \in 0..(NUM_PIXELS + 2) : drop(f)

SpecScenario == InitScenario /\ [][NextScenario]_vars

(***************************************************************************)
(* The end frame's length as a function of the pixel count given to the    *)
(* constructor, for small counts and for counts around 2^24, where an f32  *)
(* no longer holds every integer.                                          *)
(***************************************************************************)
MaxSmallCount == 48
LargeSpread == 20
EndFrameArgs == (0..MaxSmallCount) \cup {16777216 + d : d \in (-LargeSpread)..LargeSpread}

\* the constructor's computation of end_frame's length for num_pixels = arg
eval_end_frame_len ==
    /\ ret = <<>>
    /\ ret' = <<EndFrameLen(arg[1])>>
    /\ UNCHANGED <<arg, blinkt_vars>>

\* the next construction
next_count ==
    /\ ret # <<>>
    /\ \E n \in EndFrameArgs : arg' = <<n>>
    /\ ret' = <<>>
    /\ UNCHANGED blinkt_vars

InitEndFrame ==
    /\ New("spi", 0)
    /\ \E n \in EndFrameArgs : arg = <<n>>
    /\ ret = <<>>

NextEndFrame == eval_end_frame_len \/ next_count

SpecEndFrame == InitEndFrame /\ [][NextEndFrame]_vars

(***************************************************************************)
(* Pixel::set_brightness and Pixel::brightness as functions of the f32     *)
(* argument: on the f32 values around each k/31, where the stored level    *)
(* changes, and on values outside [0, 1].                                  *)
(***************************************************************************)
NudgeSpread == 2

\* the f32 d steps above (d > 0) or below (d < 0) a finite x > 0 with a normalised
\* significand
Nudge(x, d) ==
    LET m == x.m + d
    IN  IF m >= 16777216 THEN Fin(x.neg, 8388608 + (m - 16777216), x.e + 1)
        ELSE IF m < 8388608 THEN Fin(x.neg, 16777216 - (8388608 - m), x.e - 1)
        ELSE Fin(x.neg, m, x.e)

F32_NegZero == Fin(TRUE, 0, 0)
F32_MinPos == Fin(FALSE, 1, -149)
F32_Max == Fin(FALSE, 16777215, 104)
F32_NegTiny == Fin(TRUE, 8388608, -149)

EncodeArgs ==
    {Nudge(F32Div31(k), d) : k \in 1..31, d \in (-NudgeSpread)..NudgeSpread}
    \cup {F32Zero, F32_NegZero, F32_MinPos, F32_0_1, F32_0_5}
    \cup {F32_Neg1, F32_NegTiny, F32Inf(TRUE)}
    \cup {F32_2_0, F32_Max, F32Inf(FALSE)}
    \cup {F32NaN}

\* pixel.set_brightness(x) on a new Pixel, for x = arg
eval_set_brightness ==
    /\ ret = <<>>
    /\ ret' = <<set_brightness(PixelDefault, arg[1])>>
    /\ UNCHANGED <<arg, blinkt_vars>>

\* pixel.brightness() on that Pixel
eval_brightness ==
    /\ Len(ret) = 1
    /\ ret' = <<ret[1], brightness_value(ret[1])>>
    /\ UNCHANGED <<arg, blinkt_vars>>

\* the next Pixel and argument
next_brightness ==
    /\ Len(ret) = 2
    /\ \E x \in EncodeArgs : arg' = <<x>>
    /\ ret' = <<>>
    /\ UNCHANGED blinkt_vars

InitBrightness ==
    /\ New("gpio", 0)
    /\ \E x \in EncodeArgs : arg = <<x>>
    /\ ret = <<>>

NextBrightness == eval_set_brightness \/ eval_brightness \/ next_brightness

SpecBrightness == InitBrightness /\ [][NextBrightness]_vars

(***************************************************************************)
(* BlinktGpio::write (src/src/lib.rs), one pin operation per step.         *)
(***************************************************************************)
\* the bits of a byte taken from bit 0 upwards
BitOfLsbFirst(byte, n) == (byte \div 2^n) % 2

\* (byte & (1 << (7 - n))) > 0, as 1 or 0
BitOf(byte, n) == (byte \div 2^(7 - n)) % 2

\* the slices given to write
GpioFrames == {<<>>, <<1>>, Zeros(4), <<255, 204, 187, 170>>, <<227, 0, 0, 255>>}

\* a call of write(data): `for byte in data` starts, or ends at once on an empty slice
gpio_write(data) ==
    /\ gpio_pc.at = "idle"
    /\ arg' = <<data>>
    /\ ret' = <<>>
    /\ edges' = <<>>
    /\ gpio_pc' = IF Len(data) = 0 THEN [at |-> "ret", byte |-> 0, n |-> 0]
                  ELSE [at |-> "data", byte |-> 1, n |-> 0]
    /\ UNCHANGED <<pin_data, pin_clock, controller_vars>>

\* if (byte & (1 << (7 - n))) > 0 { pin_data.set_high() } else { pin_data.set_low() }
gpio_set_data ==
    /\ gpio_pc.at = "data"
    /\ pin_data' = BitOf(arg[1][gpio_pc.byte], gpio_pc.n)
    /\ gpio_pc' = [gpio_pc EXCEPT !.at = "high"]
    /\ UNCHANGED <<pin_clock, edges, arg, ret, controller_vars>>

\* self.pin_clock.set_high()
gpio_clock_high ==
    /\ gpio_pc.at = "high"
    /\ pin_clock' = 1
    /\ edges' = IF pin_clock = 0 THEN Append(edges, pin_data) ELSE edges
    /\ gpio_pc' = [gpio_pc EXCEPT !.at = "low"]
    /\ UNCHANGED <<pin_data, arg, ret, controller_vars>>

\* self.pin_clock.set_low(), then the next n, the next byte, or the end of the loops
gpio_clock_low ==
    /\ gpio_pc.at = "low"
    /\ pin_clock' = 0
    /\ gpio_pc' = IF gpio_pc.n < 7 THEN [gpio_pc EXCEPT !.at = "data", !.n = @ + 1]
                  ELSE IF gpio_pc.byte < Len(arg[1])
                       THEN [at |-> "data", byte |-> gpio_pc.byte + 1, n |-> 0]
                       ELSE [at |-> "ret", byte |-> 0, n |-> 0]
    /\ UNCHANGED <<pin_data, edges, arg, ret, controller_vars>>

\* Ok(())
gpio_return ==
    /\ gpio_pc.at = "ret"
    /\ ret' = <<"Ok">>
    /\ gpio_pc' = Idle
    /\ UNCHANGED <<pin_data, pin_clock, edges, arg, controller_vars>>

InitGpio ==
    /\ New("gpio", 0)
    /\ arg = <<>>
    /\ ret = <<>>

NextGpio ==
    \/ \E data \in GpioFrames : gpio_write(data)
    \/ gpio_set_data
    \/ gpio_clock_high
    \/ gpio_clock_low
    \/ gpio_return

SpecGpio == InitGpio /\ [][NextGpio]_vars

(***************************************************************************)
(* Properties.                                                             *)
(***************************************************************************)
CeilDiv(n, d) == (n + d - 1) \div d

\* the 5-bit brightness of a pixel last given brightness b (the default when never set)
ExpectedLevel(b) == IF b.k = "default" THEN DEFAULT_BRIGHTNESS ELSE BrightnessLevel(b)

\* the LED frame of a pixel whose last settings are g: marker | brightness, blue, green, red
ExpectedFrame(g) == <<224 + ExpectedLevel(g.brightness), g.blue, g.green, g.red>>

ShowSucceeded == op = "show" /\ outcome = "Ok"

ExampleSetting == [red |-> 170, green |-> 187, blue |-> 204, brightness |-> F32One]

\* C1: a successful show() hands the transport 4 zero bytes, then for each pixel
\* in index order the 4 bytes [0b111 marker | 5-bit brightness, blue, green, red]
\* of the values most recently set for it, then the zero bytes of the end frame;
\* a pixel set to (0xAA, 0xBB, 0xCC, 1.0) goes out as [0xFF, 0xCC, 0xBB, 0xAA].
C1_ShowEmitsFrames ==
    ShowSucceeded =>
        /\ Flatten(writes) =
              Zeros(4)
              \o Flatten([i \in 1..Len(last_set) |-> ExpectedFrame(last_set[i])])
              \o Zeros(Len(end_frame))
        /\ \A i \in 1..Len(last_set) : ExpectedLevel(last_set[i].brightness) \in 0..31
        /\ \A i \in 1..Len(last_set) :
              last_set[i] = ExampleSetting =>
                  SubSeq(Flatten(writes), 4 * i + 1, 4 * i + 4) = <<255, 204, 187, 170>>

C1_Witness ==
    /\ ShowSucceeded
    /\ Len(pixels) = 2
    /\ last_set[1] = ExampleSetting
    /\ last_set[2] = [red |-> 0, green |-> 187, blue |-> 0, brightness |-> F32_0_1]

\* C2: for every pixel count n given at construction, one successful show()
\* writes 4 + 4*n + (4 + ceil(n/16)) bytes: the end frame built as
\* 4 + trunc(n/16 + 0.94) zero bytes has length exactly 4 + ceil(n/16).
C2_FrameLength ==
    ret # <<>> =>
        4 + 4 * arg[1] + ret[1] = 4 + 4 * arg[1] + (4 + CeilDiv(arg[1], 16))

\* C3 as claimed: a successful show() performs exactly 3 transport write calls,
\* one per section, whatever the pixel count.
C3_ThreeWriteCalls ==
    ShowSucceeded => Len(writes) = 3

\* C3 as amended: a successful show() issues the start frame as one write call,
\* then one write call per pixel with that pixel's 4 bytes, then the end frame
\* as one write call: n + 2 calls for n pixels.
C3_OneCallPerPixel ==
    ShowSucceeded =>
        /\ Len(writes) = Len(pixels) + 2
        /\ writes[1] = Zeros(4)
        /\ \A i \in 1..Len(pixels) : writes[i + 1] = pixels[i] /\ Len(writes[i + 1]) = 4
        /\ writes[Len(pixels) + 2] = end_frame

C3_Witness ==
    /\ ShowSucceeded
    /\ Len(pixels) = 2
    /\ Len(writes) = 4
    /\ pixels[1] # pixels[2]

DropCleared == op = "drop" /\ clear_on_drop

\* C4 as claimed: with clear_on_drop = true, the drop transmits one final frame
\* whose LED-frame section is all zero bytes.
C4_LedSectionAllZero ==
    DropCleared =>
        /\ Len(writes) = Len(pixels) + 2
        /\ \A i \in 1..Len(pixels) : writes[i + 1] = Zeros(4)

\* C4 as amended: with clear_on_drop = true, the drop issues one final show();
\* every LED frame it hands to the transport is [0b111 marker | the pixel's
\* brightness bits, 0, 0, 0], colours zero and header byte non-zero, and the
\* whole frame (start, every LED frame, end) is written unless a write fails.
C4_DropClearsColours ==
    DropCleared =>
        /\ Len(writes) \in 1..(Len(pixels) + 2)
        /\ writes[1] = Zeros(4)
        /\ \A k \in 2..Len(writes) :
              k <= Len(pixels) + 1 =>
                  /\ writes[k] = <<224 + ExpectedLevel(last_set[k - 1].brightness), 0, 0, 0>>
                  /\ writes[k][IDX_BRIGHTNESS + 1] >= 224
        /\ ~failed => (Len(writes) = Len(pixels) + 2 /\ writes[Len(writes)] = end_frame)
        /\ failed => serial_output = "spi"

C4_Witness ==
    /\ DropCleared
    /\ ~failed
    /\ Len(pixels) = 2
    /\ writes[2] = <<255, 0, 0, 0>>
    /\ writes[3] = <<224, 0, 0, 0>>

\* C5: dropped with clear_on_drop = false, the Blinkt performs no transport
\* write and leaves the pixel buffer as it was.
C5_NoFlushWhenDisabled ==
    [][(alive /\ ~alive' /\ ~clear_on_drop) =>
          (writes' = <<>> /\ ~failed' /\ pixels' = pixels /\ outcome' = "unit")]_vars

C5_Witness ==
    /\ op = "drop"
    /\ ~clear_on_drop
    /\ writes = <<>>
    /\ Len(pixels) = 2
    /\ pixels[1] = <<255, 204, 187, 170>>

ScenarioSet ==
    /\ Len(pixels) = 8
    /\ \A i \in 1..8 :
          last_set[i] = [red |-> 255, green |-> 0, blue |-> 0, brightness |-> F32_0_1]

\* C6 as claimed: 8 pixels, set_all_pixels(255,0,0), set_all_pixels_brightness(0.1),
\* show(): 4 zero bytes, 8 LED frames [0b111_00010, 0x00, 0x00, 0xFF], 5 zero
\* bytes, 45 bytes in total.
C6_ScenarioAsClaimed ==
    (ShowSucceeded /\ ScenarioSet) =>
        /\ Flatten(writes) =
              Zeros(4) \o Flatten([i \in 1..8 |-> <<226, 0, 0, 255>>]) \o Zeros(5)
        /\ Len(Flatten(writes)) = 45

\* C6 as amended: the same scenario emits 4 zero bytes, 8 LED frames
\* [0b111_00011, 0x00, 0x00, 0xFF] (31 * 0.1 truncates to 3), 5 zero bytes:
\* 4 + 32 + 5 = 41 bytes in total.
C6_ScenarioBytes ==
    (ShowSucceeded /\ ScenarioSet) =>
        /\ Flatten(writes) =
              Zeros(4) \o Flatten([i \in 1..8 |-> <<227, 0, 0, 255>>]) \o Zeros(5)
        /\ Len(Flatten(writes)) = 41

C6_Witness == ShowSucceeded /\ ScenarioSet /\ Len(writes) = 10

\* C7: set_pixel, set_pixel_rgbb and set_pixel_brightness given an index >= the
\* pixel count change no pixel and not the pixel count, and return normally.
C7_OutOfRangeIsNoOp ==
    [][op' = "miss" =>
          (pixels' = pixels /\ Len(pixels') = Len(pixels) /\ outcome' = "unit" /\ alive')]_vars

C7_Witness ==
    /\ op = "miss"
    /\ Len(pixels) = 2
    /\ pixels[2] = <<255, 204, 187, 170>>
    /\ pixels[1] = PixelDefault

\* C8: in every reachable state the brightness byte of every pixel has its top
\* 3 bits equal to 111; only its low 5 bits vary.
C8_MarkerBits ==
    \A i \in 1..Len(pixels) :
        /\ pixels[i][IDX_BRIGHTNESS + 1] \in 224..255
        /\ BitAnd(pixels[i][IDX_BRIGHTNESS + 1], 224) = 224

C8_Witness ==
    /\ Len(pixels) = 2
    /\ last_set[1].brightness = F32_2_0
    /\ last_set[2].brightness = F32_Neg1
    /\ pixels[1][IDX_BRIGHTNESS + 1] = 255
    /\ pixels[2][IDX_BRIGHTNESS + 1] = 224
    /\ op = "show"

C10_DropSwallowsFailure ==
    (op = "drop" /\ failed) =>
        (outcome = "unit" /\ released /\ ~alive /\ drops = 1)

C10_Witness ==
    /\ op = "drop"
    /\ failed
    /\ Len(pixels) = 2
    /\ Len(writes) = 2

\* the data of the k-th write call of a show(): start frame, pixel k - 1, end frame
ExpectedCall(k) ==
    IF k = 1 THEN Zeros(4)
    ELSE IF k <= Len(pixels) + 1 THEN pixels[k - 1]
    ELSE end_frame

\* C11: when a transport write of show() fails, show() returns the error, the
\* failed write is the last write call of that show() (no retry, no further
\* write); a show() whose writes all succeed returns Ok.
C11_ShowStopsAtFailure ==
    op = "show" =>
        /\ err_at \in 0..(Len(pixels) + 2)
        /\ err_at # 0 =>
              /\ outcome = "Err"
              /\ Len(writes) = err_at
              /\ serial_output = "spi"
        /\ err_at = 0 => (outcome = "Ok" /\ Len(writes) = Len(pixels) + 2)
        /\ \A k \in 1..Len(writes) : writes[k] = ExpectedCall(k)

C11_Witness ==
    /\ op = "show"
    /\ outcome = "Err"
    /\ Len(pixels) = 2
    /\ err_at = 2
    /\ writes = <<Zeros(4), <<255, 204, 187, 170>>>>

\* a pixel with red, green and blue 0 and the brightness byte of p
Cleared(p) == <<p[IDX_BRIGHTNESS + 1], 0, 0, 0>>

\* C12: Blinkt::clear() sets red, green and blue of every pixel to 0 and leaves
\* every brightness byte as it was; Pixel::clear() does the same to its pixel
\* and leaves the other pixels alone.
C12_ClearKeepsBrightness ==
    [][/\ op' = "clear" =>
             /\ Len(pixels') = Len(pixels)
             /\ \A i \in 1..Len(pixels) : pixels'[i] = Cleared(pixels[i])
       /\ op' = "pixel_clear" =>
             \E i \in 1..Len(pixels) : pixels' = [pixels EXCEPT ![i] = Cleared(@)]]_vars

C12_Witness ==
    /\ op = "clear"
    /\ pixels = <<<<227, 0, 0, 0>>, <<255, 0, 0, 0>>>>
    /\ last_set[1].brightness = F32_0_1
    /\ last_set[2].brightness = F32_2_0

\* the kinds of operation that are setters: every Blinkt setter and the Pixel
\* methods applied through iter_mut
SetterKinds == {"set", "miss", "clear", "pixel_clear"}

\* C13: no setter performs a transport write; an operation that writes to the
\* transport is a show() or a drop.
C13_SettersDoNotWrite ==
    /\ op \in SetterKinds => (writes = <<>> /\ err_at = 0 /\ ~failed)
    /\ writes # <<>> => op \in {"show", "drop"}

C13_Witness ==
    /\ op = "set"
    /\ writes = <<>>
    /\ ~clear_on_drop
    /\ pixels = <<<<224, 204, 187, 170>>, <<231, 0, 0, 170>>>>

\* x < 0, x > 1 and 0 <= x <= 1 for an f32 x (none holds of a NaN)
IsNegative(x) == (x.k = "inf" /\ x.neg) \/ (x.k = "fin" /\ x.neg /\ x.m # 0)
IsAboveOne(x) == (x.k = "inf" /\ ~x.neg) \/ (x.k = "fin" /\ F32GtOne(x))
InUnit(x) == x.k = "fin" /\ (x.m = 0 \/ ~x.neg) /\ ~F32GtOne(x)

\* floor(31 * x) in exact arithmetic, for an f32 x in [0, 1]
ExactFloor31(x) ==
    IF x.m = 0 \/ -x.e > 30 THEN 0 ELSE (31 * x.m) \div 2^(-x.e)

\* 31 * x, in exact arithmetic, is at most 2^-20 below the next integer
CloseBelowInteger(x) ==
    /\ x.m # 0
    /\ -x.e \in 20..30
    /\ 2^(-x.e) - ((31 * x.m) % 2^(-x.e)) <= 2^(-x.e - 20)

\* the brightness byte stored by set_brightness(arg)
StoredByte == ret[1][IDX_BRIGHTNESS + 1]

\* C14 as claimed: set_brightness stores 0b111_00000 for every x < 0,
\* 0b111_11111 for every x > 1, and 0b111_00000 | floor(31 * x) for x in [0, 1].
C14_ClampAndFloor ==
    Len(ret) >= 1 =>
        /\ IsNegative(arg[1]) => StoredByte = 224
        /\ IsAboveOne(arg[1]) => StoredByte = 255
        /\ InUnit(arg[1]) => StoredByte = BitOr(224, ExactFloor31(arg[1]))

\* C14 as amended: set_brightness stores 0b111_00000 for every x < 0 and
\* 0b111_11111 for every x > 1; for x in [0, 1] it stores 0b111_00000 | L where
\* L is the floor of the f32 product 31.0 * x: L is floor(31 * x), or
\* floor(31 * x) + 1 when 31 * x is within 2^-20 below that integer and the
\* product rounds up to it, as for x = 1.0f32 / 31.0f32, stored as 0b111_00001.
C14_ClampAndF32Floor ==
    Len(ret) >= 1 =>
        /\ IsNegative(arg[1]) => StoredByte = 224
        /\ IsAboveOne(arg[1]) => StoredByte = 255
        /\ InUnit(arg[1]) =>
              /\ StoredByte - 224 \in {ExactFloor31(arg[1]), ExactFloor31(arg[1]) + 1}
              /\ StoredByte - 224 \in 0..31
              /\ StoredByte - 224 # ExactFloor31(arg[1]) => CloseBelowInteger(arg[1])
        /\ arg[1] = F32Div31(1) => StoredByte = 225

C14_Witness ==
    /\ Len(ret) >= 1
    /\ arg[1] = Fin(FALSE, 8659208, -28)
    /\ InUnit(arg[1])
    /\ ExactFloor31(arg[1]) = 0
    /\ StoredByte = 225

\* a <= b for finite f32 a, b >= 0, each 0 or with a normalised significand
F32Le(a, b) ==
    \/ a.m = 0
    \/ /\ b.m # 0
       /\ (a.e < b.e \/ (a.e = b.e /\ a.m <= b.m))

\* x - r <= 1/31 in exact arithmetic, for f32 x, r in [0, 1]
WithinOne31st(x, r) ==
    IF x.m = 0 THEN TRUE
    ELSE IF r.m = 0 THEN -x.e > 30 \/ 31 * x.m <= 2^(-x.e)
    ELSE LET u == IF x.e < r.e THEN x.e ELSE r.e
             d == x.m * 2^(x.e - u) - r.m * 2^(r.e - u)
         IN  d <= 2^(-u) \div 31

\* C15: for every x in [0.0, 1.0], brightness() read back after
\* set_brightness(x) is never greater than x and at most 1/31 below it.
C15_RoundTrip ==
    (Len(ret) = 2 /\ InUnit(arg[1])) =>
        /\ InUnit(ret[2])
        /\ F32Le(ret[2], arg[1])
        /\ WithinOne31st(arg[1], ret[2])

C15_Witness ==
    /\ Len(ret) = 2
    /\ arg[1] = Nudge(F32Div31(2), -1)
    /\ InUnit(arg[1])
    /\ ret[1][IDX_BRIGHTNESS + 1] = 225
    /\ ret[2] = F32Div31(1)

\* the byte whose bits, from bit 7 down to bit 0, are bs[1..8]
RECURSIVE ByteOfBits(_)
ByteOfBits(bs) == IF bs = <<>> THEN 0 ELSE 2 * ByteOfBits(SubSeq(bs, 1, Len(bs) - 1)) + bs[Len(bs)]

\* the bytes a receiver assembles from the sampled bits, 8 at a time
SampledBytes(bits) ==
    [i \in 1..(Len(bits) \div 8) |-> ByteOfBits(SubSeq(bits, 8 * i - 7, 8 * i))]

\* the bits of the slice that write has clocked out when it stands at gpio_pc
BitsDone ==
    IF gpio_pc.at \in {"idle", "ret"} THEN (IF arg = <<>> THEN 0 ELSE 8 * Len(arg[1]))
    ELSE 8 * (gpio_pc.byte - 1) + gpio_pc.n + (IF gpio_pc.at = "low" THEN 1 ELSE 0)

\* C16: BlinktGpio::write sends the bytes in order, each from bit 7 down to bit 0,
\* and for every bit sets the data line, raises the clock, lowers the clock: the
\* data line changes only while the clock is low, the clock is low before and
\* after every write, a write of k bytes makes exactly 8 * k clock pulses, and
\* the data line sampled at the rising edges gives back the bytes written.
C16_BitBang ==
    /\ [](/\ gpio_pc.at \in {"idle", "ret", "data", "high"} => pin_clock = 0
          /\ gpio_pc.at = "low" => pin_clock = 1
          /\ Len(edges) = BitsDone
          /\ gpio_pc.at = "high" =>
                pin_data = (arg[1][gpio_pc.byte] \div 2^(7 - gpio_pc.n)) % 2
          /\ ret = <<"Ok">> =>
                /\ gpio_pc.at = "idle"
                /\ Len(edges) = 8 * Len(arg[1])
                /\ SampledBytes(edges) = arg[1])
    /\ [][/\ pin_data' # pin_data => (pin_clock = 0 /\ pin_clock' = 0)
          /\ (pin_clock = 0 /\ pin_clock' = 1) => (pin_data' = pin_data /\ gpio_pc.at = "high")
          /\ (pin_clock = 1 /\ pin_clock' = 0) => pin_data' = pin_data]_vars

C16_Witness ==
    /\ ret = <<"Ok">>
    /\ arg = <<<<255, 204, 187, 170>>>>
    /\ Len(edges) = 32
    /\ SubSeq(edges, 9, 16) = <<1, 1, 0, 0, 1, 1, 0, 0>>
    /\ pin_clock = 0
    /\ pin_data = 0

\* C17: show(), whether it returns Ok or Err, leaves every pixel's 4 bytes, the
\* pixel count, clear_on_drop and the end frame as they were; two successful
\* show() calls in a row transmit the same bytes.
C17_ShowKeepsState ==
    [][/\ op' = "show" =>
             /\ pixels' = pixels
             /\ Len(pixels') = Len(pixels)
             /\ clear_on_drop' = clear_on_drop
             /\ end_frame' = end_frame
       /\ (ShowSucceeded /\ op' = "show" /\ outcome' = "Ok") =>
             Flatten(writes') = Flatten(writes)]_vars

C17_Witness ==
    /\ ShowSucceeded
    /\ shows = 2
    /\ ~clear_on_drop
    /\ pixels = <<<<227, 204, 187, 170>>, PixelDefault>>

====
